---- MODULE Spec2Model ----
(***************************************************************************)
(* Model of the groq-chatbot Telegram front end (src/groq_chat).           *)
(*                                                                         *)
(* State: the per-user user_data dictionaries, the ConversationHandler's   *)
(* conversation table, the pending updates, the message turn that is being *)
(* handled, and the shared file temp_audio.wav.                            *)
(*                                                                         *)
(* Texts are sequences of one-character strings so that lower(), strip()   *)
(* and the renderer are computed, not assumed.  An optional dictionary     *)
(* entry is a sequence of length 0 (key absent) or 1 (key present).        *)
(***************************************************************************)
EXTENDS Integers, Sequences, FiniteSets, TLC

(***************************************************************************)
(* Bounds of the model.                                                    *)
(***************************************************************************)
MaxUpdates == 3
MaxQueue == 1
MaxFragments == 2

(***************************************************************************)
(* Users.  AuthFilter admits ann and bob; eve is not on the allow list.    *)
(***************************************************************************)
Users == {"ann", "bob", "eve"}

Allowed == {"ann", "bob"}

(***************************************************************************)
(* Message texts the users send.                                           *)
(***************************************************************************)
TxtClear == <<" ", "C", "l", "e", "a", "r", " ">>

TxtBrief == <<"c", "l", "e", "a", "r", "s">>

Texts == {TxtClear, TxtBrief}

(***************************************************************************)
(* str.lower() and str.strip() on the characters the texts use.            *)
(***************************************************************************)
LowerChar(c) ==
    CASE c = "C" -> "c"
      [] c = "L" -> "l"
      [] c = "E" -> "e"
      [] c = "A" -> "a"
      [] c = "R" -> "r"
      [] OTHER -> c

Lower(s) == [i \in 1..Len(s) |-> LowerChar(s[i])]

IsSpace(c) == c = " "

RECURSIVE LStrip(_)
LStrip(s) ==
    IF s # <<>> /\ IsSpace(Head(s)) THEN LStrip(Tail(s)) ELSE s

RECURSIVE RStrip(_)
RStrip(s) ==
    IF s # <<>> /\ IsSpace(s[Len(s)]) THEN RStrip(SubSeq(s, 1, Len(s) - 1)) ELSE s

Strip(s) == RStrip(LStrip(s))

\* handlers.py:162  system_prompt.lower().strip() == "clear"
IsClear(text) == Strip(Lower(text)) = <<"c", "l", "e", "a", "r">>

(***************************************************************************)
(* Optional values: dict.get(key, default), key presence.                  *)
(***************************************************************************)
Absent == <<>>

Some(v) == <<v>>

Get(opt, default) == IF opt = Absent THEN default ELSE opt[1]

(***************************************************************************)
(* The model a button of /model selects (one of the eight) and the two     *)
(* defaults the handlers name.                                             *)
(***************************************************************************)
ModelDefaultTurn == "llama-3.1-8b-instant"

ModelDefaultInfo == "llama3-8b-8192"

Models == {"llama-3.3-70b-versatile"}

(***************************************************************************)
(* Conversation states of the system-prompt ConversationHandler.           *)
(***************************************************************************)
SYSTEM_PROMPT_SP == 1

CANCEL_SP == 2

(***************************************************************************)
(* Turns of the history.                                                   *)
(***************************************************************************)
Turn(role, content) == [role |-> role, content |-> content]

(***************************************************************************)
(* Completion fragments and the renderer.  The stream yields empty         *)
(* fragments and bold markers: the first marker changes the rendered text, *)
(* a second one closes the span and leaves it as it was.                   *)
(***************************************************************************)
FragStar == <<"*">>

FragEmpty == <<>>

Fragments == {FragEmpty, FragStar}

\* format_message: a star opens or closes a bold span; a span left open at
\* the end of the text is closed, so every prefix renders to valid markup.
RECURSIVE RenderFrom(_, _)
RenderFrom(raw, open) ==
    IF raw = <<>>
    THEN IF open THEN <<"</b>">> ELSE <<>>
    ELSE IF Head(raw) = "*"
         THEN <<IF open THEN "</b>" ELSE "<b>">> \o RenderFrom(Tail(raw), ~open)
         ELSE <<Head(raw)>> \o RenderFrom(Tail(raw), open)

format_message(raw) == RenderFrom(raw, FALSE)

Placeholder == <<"Generating response...">>

FailureNotice == <<"An error occurred while processing your request.">>

(***************************************************************************)
(* Updates.  A command update carries its command name in cmd, a plain     *)
(* message its text, a callback query the model named by its data          *)
(* ("change_model_" + model, handlers.py:118) in cmd.                      *)
(***************************************************************************)
Commands == {"start", "help", "new", "model", "info", "audio", "system_prompt", "cancel"}

CommandUpdate(u, c) == [user |-> u, type |-> "command", cmd |-> c, text |-> <<>>]

MessageUpdate(u, t) == [user |-> u, type |-> "message", cmd |-> "", text |-> t]

CallbackUpdate(u, m) == [user |-> u, type |-> "callback_query", cmd |-> m, text |-> <<>>]

\* ann sends every kind of update, bob the reset of a second session, eve one
\* update of each type.
UpdatesOf(u) ==
    CASE u = "ann" ->
             {CommandUpdate(u, c) : c \in Commands}
                 \cup {MessageUpdate(u, t) : t \in Texts}
                 \cup {CallbackUpdate(u, m) : m \in Models}
      [] u = "bob" -> {CommandUpdate(u, "new")}
      [] OTHER ->
             {CommandUpdate(u, "audio"), MessageUpdate(u, TxtBrief)}
                 \cup {CallbackUpdate(u, m) : m \in Models}

(***************************************************************************)
(* The filters of groq_chat.filters.                                       *)
(***************************************************************************)
AuthFilter(upd) == upd.user \in Allowed

MessageFilter(upd) == AuthFilter(upd) /\ upd.type = "message"

VARIABLES
    user_data,      \* context.user_data of every user
    conversations,  \* ConversationHandler state of every user (Absent = END)
    queue,          \* updates received and not yet processed
    nrecv,          \* number of updates received so far
    inflight,       \* message_handler invocations that have not returned
    wav,            \* content of temp_audio.wav (Absent = no such file)
    last,           \* handler the update processed last ran, and its reply,
                    \* until the next update arrives
    aborted,        \* get_system_prompt raised since the user's last reset
    waiting,        \* the get_system_prompt invocation whose confirmation
                    \* reply is pending (Absent = none)
    sent            \* turns since the user's last reset that changed the history

vars == <<user_data, conversations, queue, nrecv, inflight, wav, last, aborted,
          waiting, sent>>

EmptyUserData ==
    [messages |-> Absent, model |-> Absent, system_prompt |-> Absent,
     voice_enabled |-> Absent]

NoHandler == [user |-> "", handler |-> "none", reply |-> ""]

Init ==
    /\ user_data = [u \in Users |-> EmptyUserData]
    /\ conversations = [u \in Users |-> Absent]
    /\ queue = <<>>
    /\ nrecv = 0
    /\ inflight = <<>>
    /\ wav = Absent
    /\ last = NoHandler
    /\ aborted = [u \in Users |-> FALSE]
    /\ waiting = Absent
    /\ sent = [u \in Users |-> <<>>]

(***************************************************************************)
(* Views of a session.                                                     *)
(***************************************************************************)
History(u) == Get(user_data[u].messages, <<>>)

AwaitingPrompt(u) == conversations[u] = Some(SYSTEM_PROMPT_SP)

Idle(u) == conversations[u] = Absent

(***************************************************************************)
(* run_polling: an update arrives.                                         *)
(***************************************************************************)
Receive(u, upd) ==
    /\ nrecv < MaxUpdates
    /\ Len(queue) < MaxQueue
    /\ queue' = Append(queue, upd)
    /\ nrecv' = nrecv + 1
    /\ last' = NoHandler
    /\ UNCHANGED <<user_data, conversations, inflight, wav, aborted, sent, waiting>>

(***************************************************************************)
(* Application.process_update: the handlers are tried in the order         *)
(* start_bot registered them and the first whose check accepts the update  *)
(* handles it.  The ConversationHandler offers its entry point when the    *)
(* user has no conversation, and the handlers of the current state, then   *)
(* the fallbacks, when the user has one.                                   *)
(***************************************************************************)
ConversationRoute(upd) ==
    IF conversations[upd.user] = Absent
    THEN IF upd.type = "command" /\ upd.cmd = "system_prompt" /\ AuthFilter(upd)
         THEN "start_system_prompt" ELSE "none"
    ELSE IF conversations[upd.user] = Some(SYSTEM_PROMPT_SP) /\ MessageFilter(upd)
         THEN "get_system_prompt"
    ELSE IF conversations[upd.user] = Some(CANCEL_SP)
                /\ upd.type = "command" /\ upd.cmd = "cancel" /\ AuthFilter(upd)
         THEN "cancelled_system_prompt"
    ELSE IF upd.type = "command" /\ upd.cmd = "cancel" /\ AuthFilter(upd)
         THEN "cancelled_system_prompt"
    ELSE "none"

CommandRoute(upd) ==
    CASE upd.cmd = "start" -> "start"
      [] upd.cmd = "help" -> "help_command"
      [] upd.cmd = "new" -> "new_command_handler"
      [] upd.cmd = "model" -> "model_command_handler"
      [] upd.cmd = "info" -> "info_command_handler"
      [] upd.cmd = "audio" -> "audio_command_handler"
      [] OTHER -> "none"

\* A registration with the MessageHandler ahead of the ConversationHandler.
RouteMessageFirst(upd) ==
    IF upd.type = "command" /\ AuthFilter(upd) /\ CommandRoute(upd) # "none"
    THEN CommandRoute(upd)
    ELSE IF MessageFilter(upd) THEN "message_handler"
    ELSE IF ConversationRoute(upd) # "none" THEN ConversationRoute(upd)
    ELSE IF upd.type = "callback_query" THEN "change_model_callback_handler"
    ELSE "none"

Route(upd) ==
    IF upd.type = "command" /\ AuthFilter(upd) /\ CommandRoute(upd) # "none"
    THEN CommandRoute(upd)
    ELSE IF ConversationRoute(upd) # "none" THEN ConversationRoute(upd)
    ELSE IF MessageFilter(upd) THEN "message_handler"
    ELSE IF upd.type = "callback_query" THEN "change_model_callback_handler"
    ELSE "none"

(***************************************************************************)
(* Application.builder() is built without concurrent_updates, so the       *)
(* application takes the next update only when the handler of the previous *)
(* one has returned.                                                       *)
(***************************************************************************)
\* An application built with concurrent_updates(True).
ConcurrentUpdates == TRUE

ProcessAllowed == inflight = <<>> /\ waiting = Absent

Ready(h) == queue # <<>> /\ ProcessAllowed /\ Route(Head(queue)) = h

Ran(upd, h, r) == [user |-> upd.user, handler |-> h, reply |-> r]

\* The reply call that ends a command handler: the text is delivered, or the
\* call raises (a TelegramError of the transport, or AttributeError when the
\* update carries no message), nothing is delivered and the handler raises
\* into error_handler. What the handler assigned before the call stays.
Reply(upd, h, text) == {Ran(upd, h, text), Ran(upd, h, "")}

\* A reset that forgets the system prompt turn.
NewChatEmpty(ud) == [ud EXCEPT !.messages = Some(<<>>)]

\* handlers.py:45  new_chat
new_chat(ud) ==
    IF ud.system_prompt # Absent
    THEN [ud EXCEPT !.messages = Some(<<Turn("system", ud.system_prompt[1])>>)]
    ELSE [ud EXCEPT !.messages = Some(<<>>)]

\* An update no handler accepts is dropped.
Unhandled ==
    /\ Ready("none")
    /\ queue' = Tail(queue)
    /\ last' = Ran(Head(queue), "none", "")
    /\ UNCHANGED <<user_data, conversations, nrecv, inflight, wav, aborted, sent, waiting>>

start ==
    /\ Ready("start")
    /\ queue' = Tail(queue)
    /\ last' \in Reply(Head(queue), "start", "Hi")
    /\ UNCHANGED <<user_data, conversations, nrecv, inflight, wav, aborted, sent, waiting>>

help_command ==
    /\ Ready("help_command")
    /\ queue' = Tail(queue)
    /\ last' \in Reply(Head(queue), "help_command", "Basic commands")
    /\ UNCHANGED <<user_data, conversations, nrecv, inflight, wav, aborted, sent, waiting>>

\* A /new that forgets the system prompt as well.
NewCommandClearsPrompt ==
    /\ Ready("new_command_handler")
    /\ LET u == Head(queue).user IN
        /\ user_data' = [user_data EXCEPT ![u] =
                             new_chat([@ EXCEPT !.system_prompt = Absent])]
        /\ aborted' = [aborted EXCEPT ![u] = FALSE]
        /\ sent' = [sent EXCEPT ![u] = <<>>]
    /\ queue' = Tail(queue)
    /\ last' \in Reply(Head(queue), "new_command_handler", "New chat session started")
    /\ UNCHANGED <<conversations, nrecv, inflight, wav, waiting>>

new_command_handler ==
    /\ Ready("new_command_handler")
    /\ LET u == Head(queue).user IN
        /\ user_data' = [user_data EXCEPT ![u] = new_chat(@)]
        /\ aborted' = [aborted EXCEPT ![u] = FALSE]
        /\ sent' = [sent EXCEPT ![u] = <<>>]
    /\ queue' = Tail(queue)
    /\ last' \in Reply(Head(queue), "new_command_handler", "New chat session started")
    /\ UNCHANGED <<conversations, nrecv, inflight, wav, waiting>>

model_command_handler ==
    /\ Ready("model_command_handler")
    /\ queue' = Tail(queue)
    /\ last' \in Reply(Head(queue), "model_command_handler", "Select a model")
    /\ UNCHANGED <<user_data, conversations, nrecv, inflight, wav, aborted, sent, waiting>>

change_model_callback_handler ==
    /\ Ready("change_model_callback_handler")
    /\ LET upd == Head(queue) IN
        /\ user_data' = [user_data EXCEPT ![upd.user].model = Some(upd.cmd)]
        /\ last' \in Reply(upd, "change_model_callback_handler", upd.cmd)
    /\ queue' = Tail(queue)
    /\ UNCHANGED <<conversations, nrecv, inflight, wav, aborted, sent, waiting>>

\* The state is entered when the handler returns; a reply that raises leaves
\* the conversation table as it was.
start_system_prompt ==
    /\ Ready("start_system_prompt")
    /\ \E delivered \in BOOLEAN :
        LET upd == Head(queue) IN
        /\ conversations' = IF delivered
                            THEN [conversations EXCEPT ![upd.user] = Some(SYSTEM_PROMPT_SP)]
                            ELSE conversations
        /\ last' = Ran(upd, "start_system_prompt",
                       IF delivered THEN "Send me a system prompt" ELSE "")
    /\ queue' = Tail(queue)
    /\ UNCHANGED <<user_data, nrecv, inflight, wav, aborted, sent, waiting>>

cancelled_system_prompt ==
    /\ Ready("cancelled_system_prompt")
    /\ \E delivered \in BOOLEAN :
        LET upd == Head(queue) IN
        /\ conversations' = IF delivered
                            THEN [conversations EXCEPT ![upd.user] = Absent]
                            ELSE conversations
        /\ last' = Ran(upd, "cancelled_system_prompt",
                       IF delivered THEN "System prompt change cancelled" ELSE "")
    /\ queue' = Tail(queue)
    /\ UNCHANGED <<user_data, nrecv, inflight, wav, aborted, sent, waiting>>

\* handlers.py:161-167: the entry is popped or set before the reply is awaited.
SetSystemPrompt(ud, text) ==
    IF IsClear(text)
    THEN [ud EXCEPT !.system_prompt = Absent]
    ELSE [ud EXCEPT !.system_prompt = Some(text)]

\* handlers.py:159-167: the entry is popped or set and the confirmation
\* reply is sent; the handler waits for it with the new system_prompt beside
\* the old messages and the flow still in AwaitingPrompt.
get_system_prompt ==
    /\ Ready("get_system_prompt")
    /\ LET upd == Head(queue)
           u == upd.user
       IN  /\ user_data' = [user_data EXCEPT ![u] = SetSystemPrompt(@, upd.text)]
           /\ waiting' = Some([user |-> u, text |-> upd.text,
                               before |-> user_data[u]])
           /\ last' = Ran(upd, "get_system_prompt", "")
    /\ queue' = Tail(queue)
    /\ UNCHANGED <<conversations, nrecv, inflight, wav, aborted, sent>>

\* handlers.py:164-169: the reply returns and new_chat and the return of END
\* follow, or the reply raises and the handler ends there: the new
\* system_prompt stays beside the old messages, in the same state.
get_system_prompt_resume ==
    /\ waiting # Absent
    /\ \E delivered \in BOOLEAN :
        LET u == waiting[1].user
            text == waiting[1].text
        IN  IF delivered
            THEN /\ user_data' = [user_data EXCEPT ![u] = new_chat(@)]
                 /\ conversations' = [conversations EXCEPT ![u] = Absent]
                 /\ aborted' = [aborted EXCEPT ![u] = FALSE]
                 /\ sent' = [sent EXCEPT ![u] = <<>>]
                 /\ last' = [user |-> u, handler |-> "get_system_prompt",
                             reply |-> IF IsClear(text) THEN "System prompt cleared"
                                       ELSE "System prompt changed"]
            ELSE /\ aborted' = [aborted EXCEPT ![u] = TRUE]
                 /\ last' = [user |-> u, handler |-> "get_system_prompt",
                             reply |-> ""]
                 /\ UNCHANGED <<user_data, conversations, sent>>
    /\ waiting' = Absent
    /\ UNCHANGED <<queue, nrecv, inflight, wav>>

audio_command_handler ==
    /\ Ready("audio_command_handler")
    /\ LET upd == Head(queue)
           new_state == ~Get(user_data[upd.user].voice_enabled, TRUE)
       IN  /\ user_data' = [user_data EXCEPT ![upd.user].voice_enabled = Some(new_state)]
           /\ last' \in Reply(upd, "audio_command_handler",
                              IF new_state THEN "enabled" ELSE "disabled")
    /\ queue' = Tail(queue)
    /\ UNCHANGED <<conversations, nrecv, inflight, wav, aborted, sent, waiting>>

info_command_handler ==
    /\ Ready("info_command_handler")
    /\ LET upd == Head(queue) IN
        last' \in Reply(upd, "info_command_handler",
                        Get(user_data[upd.user].model, ModelDefaultInfo))
    /\ queue' = Tail(queue)
    /\ UNCHANGED <<user_data, conversations, nrecv, inflight, wav, aborted, sent, waiting>>

(***************************************************************************)
(* message_handler.  One invocation is a record of inflight:               *)
(*   raw    full_output_message                                            *)
(*   shown  the text the placeholder message init_msg displays             *)
(*   edits  number of edit_text calls made while streaming                 *)
(*   ack    outcome of the last of these calls                             *)
(*   pc     Streaming, Voice, Completed or Failed                          *)
(*   pre    the history when the handler was entered                       *)
(*   synth  number of text_to_wav calls, tts: the outcome of the last one  *)
(*   voice  the audio reply_voice delivered                                *)
(*   cause  what raised into the except branch                             *)
(*   notice outcome of the edit that shows the failure notice              *)
(***************************************************************************)
NewTurn(u, msg, hist) ==
    [user |-> u, msg |-> msg, raw |-> <<>>, nfrag |-> 0, shown |-> Placeholder,
     edits |-> 0, ack |-> "none", pc |-> "Streaming", pre |-> hist,
     synth |-> 0, tts |-> "none", voice |-> Absent, cause |-> "none",
     notice |-> "none"]

\* handlers.py:184-188
Defaults(ud) ==
    [ud EXCEPT !.model = IF @ = Absent THEN Some(ModelDefaultTurn) ELSE @,
               !.messages = IF @ = Absent THEN Some(<<>>) ELSE @]

\* handlers.py:184-197.  A placeholder reply that raises ends the handler.
message_handler ==
    /\ Ready("message_handler")
    /\ \E delivered \in BOOLEAN :
        LET upd == Head(queue)
            u == upd.user
        IN  /\ user_data' = [user_data EXCEPT ![u] = Defaults(@)]
            /\ inflight' = IF delivered
                           THEN Append(inflight, NewTurn(u, upd.text, History(u)))
                           ELSE inflight
            /\ last' = Ran(upd, "message_handler",
                           IF delivered THEN "Generating response..." ELSE "")
    /\ queue' = Tail(queue)
    /\ UNCHANGED <<conversations, nrecv, wav, aborted, sent, waiting>>

\* Message.edit_text: the call returns, or raises what the transport
\* answered: "message is not modified", a flood-control rejection or a
\* network failure.  Which one is the transport's choice, not the handler's.
EditOutcomes == {"ok", "NotModified", "RetryAfter", "NetworkError"}

\* An except branch that only logs.
FailSilently(t, cause, delivered) ==
    [t EXCEPT !.pc = "Failed", !.cause = cause]

\* handlers.py:230-232: the except branch of message_handler.
Fail(t, cause, delivered) ==
    [t EXCEPT !.pc = "Failed", !.cause = cause,
              !.notice = IF delivered THEN "ok" ELSE "failed",
              !.shown = IF delivered THEN FailureNotice ELSE @]

\* A loop that calls text_to_wav on every fragment it shows.
OnFragmentWithVoice(t, f, ack) ==
    IF f = <<>>
    THEN [t EXCEPT !.nfrag = @ + 1]
    ELSE LET full == t.raw \o f
             send_message == format_message(full)
             t1 == [t EXCEPT !.nfrag = @ + 1, !.raw = full, !.edits = @ + 1,
                             !.ack = ack]
         IN  IF ack = "ok"
             THEN [t1 EXCEPT !.shown = send_message, !.synth = @ + 1]
             ELSE t1

\* handlers.py:200-206: one pass of the loop over generate_response.  An edit
\* that raises leaves the turn with the answer of the transport, on its way
\* to the except branch.
OnFragment(t, f, ack) ==
    IF f = <<>>
    THEN [t EXCEPT !.nfrag = @ + 1]
    ELSE LET full == t.raw \o f
             send_message == format_message(full)
             t1 == [t EXCEPT !.nfrag = @ + 1, !.raw = full, !.edits = @ + 1,
                             !.ack = ack]
         IN  IF ack = "ok"
             THEN [t1 EXCEPT !.shown = send_message]
             ELSE t1

\* The edit of the turn raised and the except branch has not sent its notice.
Refused(t) == t.pc = "Streaming" /\ t.ack \notin {"none", "ok"}

\* generate_response(message, context): the user turn of the message is
\* put into context.user_data["messages"].
generate_response(hist, msg) == Append(hist, Turn("user", msg))

\* The generator holds the context of the handler.  When it puts the user
\* turn there is its own business: each time the loop resumes it, it may
\* have done so, once.
GenSteps(t) ==
    LET ud == user_data[t.user]
    IN  IF History(t.user) # t.pre THEN {ud}
        ELSE {ud, [ud EXCEPT !.messages =
                       Some(generate_response(Get(@, <<>>), t.msg))]}

\* sent[u] after a step that left the turn t with the session ud: a turn
\* that failed after its user turn was added stays in the history.
Logged(t, ud) ==
    IF t.pc = "Failed" /\ Get(ud.messages, <<>>) # t.pre
    THEN [sent EXCEPT ![t.user] =
              Append(@, [msg |-> t.msg, answer |-> <<>>, usr |-> TRUE, ok |-> FALSE])]
    ELSE sent

StreamFragment(i, f) ==
    /\ i \in 1..Len(inflight)
    /\ inflight[i].pc = "Streaming"
    /\ ~Refused(inflight[i])
    /\ inflight[i].nfrag < MaxFragments
    /\ \E ack \in EditOutcomes, ud \in GenSteps(inflight[i]) :
        LET t == OnFragment(inflight[i], f, ack)
        IN  /\ f = <<>> => ack = "ok"
            /\ inflight' = [inflight EXCEPT ![i] = t]
            /\ user_data' = [user_data EXCEPT ![t.user] = ud]
    /\ UNCHANGED <<conversations, queue, nrecv, wav, last, aborted, waiting, sent>>

\* handlers.py:230-232: the edit raised; the except branch logs and sends the
\* failure notice, which the transport delivers or not.
StreamExcept(i) ==
    /\ i \in 1..Len(inflight)
    /\ Refused(inflight[i])
    /\ \E delivered \in BOOLEAN :
        LET t == Fail(inflight[i], inflight[i].ack, delivered)
        IN  /\ inflight' = [inflight EXCEPT ![i] = t]
            /\ sent' = Logged(t, user_data[t.user])
    /\ UNCHANGED <<user_data, conversations, queue, nrecv, wav, last, aborted, waiting>>

\* generate_response raises: the completion stream failed.
StreamRaise(i) ==
    /\ i \in 1..Len(inflight)
    /\ inflight[i].pc = "Streaming"
    /\ ~Refused(inflight[i])
    /\ \E delivered \in BOOLEAN, ud \in GenSteps(inflight[i]) :
        LET t == Fail(inflight[i], "UpstreamError", delivered)
        IN  /\ inflight' = [inflight EXCEPT ![i] = t]
            /\ user_data' = [user_data EXCEPT ![t.user] = ud]
            /\ sent' = Logged(t, ud)
    /\ UNCHANGED <<conversations, queue, nrecv, wav, last, aborted, waiting>>

\* handlers.py:208-213
AppendAssistant(ud, raw) ==
    [ud EXCEPT !.messages = Some(Append(Get(@, <<>>), Turn("assistant", raw)))]

\* A stream end that goes on to the voice step whatever voice_enabled says.
StreamEndAlwaysVoice(i) ==
    /\ i \in 1..Len(inflight)
    /\ inflight[i].pc = "Streaming"
    /\ ~Refused(inflight[i])
    /\ \E ud \in GenSteps(inflight[i]) :
       LET t == inflight[i]
           u == t.user
       IN  /\ user_data' = [user_data EXCEPT ![u] = AppendAssistant(ud, t.raw)]
           /\ sent' = [sent EXCEPT ![u] =
                          Append(@, [msg |-> t.msg, answer |-> t.raw,
                                     usr |-> Get(ud.messages, <<>>) # t.pre,
                                     ok |-> TRUE])]
           /\ inflight' = [inflight EXCEPT ![i].pc = "Voice"]
    /\ UNCHANGED <<conversations, queue, nrecv, wav, last, aborted, waiting>>

\* handlers.py:208-217: the stream has ended; the assistant turn is appended
\* and voice_enabled decides whether the voice step follows.
StreamEnd(i) ==
    /\ i \in 1..Len(inflight)
    /\ inflight[i].pc = "Streaming"
    /\ ~Refused(inflight[i])
    /\ \E ud \in GenSteps(inflight[i]) :
       LET t == inflight[i]
           u == t.user
       IN  /\ user_data' = [user_data EXCEPT ![u] = AppendAssistant(ud, t.raw)]
           /\ sent' = [sent EXCEPT ![u] =
                          Append(@, [msg |-> t.msg, answer |-> t.raw,
                                     usr |-> Get(ud.messages, <<>>) # t.pre,
                                     ok |-> TRUE])]
           /\ inflight' = [inflight EXCEPT ![i].pc =
                              IF Get(user_data[u].voice_enabled, TRUE)
                              THEN "Voice" ELSE "Completed"]
    /\ UNCHANGED <<conversations, queue, nrecv, wav, last, aborted, waiting>>

\* tts.save(filename): the file is written, or the call raises before the
\* file is opened, or it raises after the file was opened for writing.
SaveOutcomes == {"ok", "failed", "truncated"}

\* temp_audio.wav when a save raised after opening the file.
EmptyFile == <<"<EMPTY FILE>">>

\* handlers.py:57-70: the content of temp_audio.wav after text_to_wav, which
\* logs the error of a failed save and returns.
text_to_wav(text, saved) ==
    CASE saved = "ok" -> Some(text)
      [] saved = "truncated" -> Some(EmptyFile)
      [] OTHER -> wav

\* A voice step without the inner try: a failed synthesis or a failed
\* reply_voice reaches the except branch of message_handler.
VoiceStepUncaught(i) ==
    /\ i \in 1..Len(inflight)
    /\ inflight[i].pc = "Voice"
    /\ \E saved \in SaveOutcomes, delivered \in BOOLEAN, shown \in BOOLEAN :
        LET t == inflight[i]
            file == text_to_wav(t.raw, saved)
            t1 == [t EXCEPT !.pc = "Completed", !.synth = @ + 1,
                            !.tts = IF saved = "ok" THEN "ok" ELSE "failed",
                            !.voice = IF delivered THEN file ELSE Absent]
        IN  /\ wav' = file
            /\ inflight' = [inflight EXCEPT ![i] =
                   IF t1.tts = "ok" /\ t1.voice # Absent THEN t1
                   ELSE Fail(t1, "VoiceError", shown)]
    /\ UNCHANGED <<user_data, conversations, queue, nrecv, last, aborted, sent, waiting>>

\* handlers.py:57-70 and 218-228.  text_to_wav logs a synthesis error and
\* returns, so the file read next is whatever temp_audio.wav then holds; a
\* missing file or a failed reply_voice is caught and logged.
VoiceStep(i) ==
    /\ i \in 1..Len(inflight)
    /\ inflight[i].pc = "Voice"
    /\ \E saved \in SaveOutcomes, delivered \in BOOLEAN :
        LET t == inflight[i]
            file == text_to_wav(t.raw, saved)
        IN  /\ wav' = file
            /\ inflight' = [inflight EXCEPT ![i] =
                   [t EXCEPT !.pc = "Completed", !.synth = @ + 1,
                             !.tts = IF saved = "ok" THEN "ok" ELSE "failed",
                             !.voice = IF delivered THEN file ELSE Absent]]
    /\ UNCHANGED <<user_data, conversations, queue, nrecv, last, aborted, sent, waiting>>

\* message_handler returns.
Return(i) ==
    /\ i \in 1..Len(inflight)
    /\ inflight[i].pc \in {"Completed", "Failed"}
    /\ inflight' = SubSeq(inflight, 1, i - 1) \o SubSeq(inflight, i + 1, Len(inflight))
    /\ UNCHANGED <<user_data, conversations, queue, nrecv, wav, last, aborted, sent, waiting>>

(***************************************************************************)
(* Processing of the next pending update, and the whole system.            *)
(***************************************************************************)
Process ==
    \/ Unhandled
    \/ start
    \/ help_command
    \/ new_command_handler
    \/ model_command_handler
    \/ info_command_handler
    \/ audio_command_handler
    \/ start_system_prompt
    \/ get_system_prompt
    \/ cancelled_system_prompt
    \/ message_handler
    \/ change_model_callback_handler

Next ==
    \/ \E u \in Users : \E upd \in UpdatesOf(u) : Receive(u, upd)
    \/ Process
    \/ get_system_prompt_resume
    \/ \E i \in 1..Len(inflight) : \E f \in Fragments : StreamFragment(i, f)
    \/ \E i \in 1..Len(inflight) : StreamExcept(i)
    \/ \E i \in 1..Len(inflight) : StreamRaise(i)
    \/ \E i \in 1..Len(inflight) : StreamEnd(i)
    \/ \E i \in 1..Len(inflight) : VoiceStep(i)
    \/ \E i \in 1..Len(inflight) : Return(i)

Spec == Init /\ [][Next]_vars

\* handlers.py:245-262, registered at 308: a handler that raised is followed
\* by error_handler, which logs and replies to the chat with the traceback.
\* It ran for the last update when that handler ended without delivering a
\* reply, and for a turn whose failure notice could not be sent.
error_handler ==
    \/ last.handler # "none" /\ last.reply = "" /\ waiting = Absent
    \/ \E i \in 1..Len(inflight) : inflight[i].notice = "failed"

(***************************************************************************)
(* Properties.                                                             *)
(***************************************************************************)
\* A step that processes the update at the head of the queue.
ProcessStep == queue # <<>> /\ queue' = Tail(queue) /\ nrecv' = nrecv

InFlight(i) == inflight[i].pc \in {"Streaming", "Voice"}

SystemTurnLeads(u) ==
    IF user_data[u].system_prompt # Absent
    THEN /\ Len(History(u)) >= 1
         /\ History(u)[1] = Turn("system", user_data[u].system_prompt[1])
    ELSE \A k \in 1..Len(History(u)) : History(u)[k].role # "system"

\* No get_system_prompt of the user waits for its confirmation reply.
Settled(u) == waiting = Absent \/ waiting[1].user # u

\* C1: in every state reached by operations that ran to completion (no
\* get_system_prompt of the session is waiting for its reply or raised since
\* the session's last reset), a set
\* system_prompt is the content of a leading system turn of the history, and
\* with no system_prompt the history holds no system turn.
C1_SystemPromptLeadsHistory ==
    \A u \in Users : (~aborted[u] /\ Settled(u)) => SystemTurnLeads(u)

\* A session with a system prompt, its system turn and a completed turn.
C1_Witness ==
    \E u \in Users :
        /\ ~aborted[u] /\ Settled(u)
        /\ user_data[u].system_prompt # Absent
        /\ Len(History(u)) = 3

\* C2: a turn that ended Failed has left the history of its session as it
\* was when the turn began.
C2_FailedTurnKeepsHistory ==
    \A i \in 1..Len(inflight) :
        inflight[i].pc = "Failed" => History(inflight[i].user) = inflight[i].pre

RECURSIVE TurnsOf(_)
TurnsOf(done) ==
    IF done = <<>> THEN <<>>
    ELSE (IF Head(done).usr THEN <<Turn("user", Head(done).msg)>> ELSE <<>>)
             \o (IF Head(done).ok THEN <<Turn("assistant", Head(done).answer)>> ELSE <<>>)
             \o TurnsOf(Tail(done))

\* No handler of the user is at work, and every turn since the user's last
\* reset was successful and had its user turn added by generate_response.
OnlySuccessfulTurns(u) ==
    /\ Settled(u)
    /\ \A i \in 1..Len(inflight) :
          inflight[i].user = u => inflight[i].pc \in {"Voice", "Completed"}
    /\ \A k \in 1..Len(sent[u]) : sent[u][k].ok /\ sent[u][k].usr

SystemPrefix(u) ==
    IF user_data[u].system_prompt # Absent
    THEN <<Turn("system", user_data[u].system_prompt[1])>> ELSE <<>>

\* C3: in a session whose turns since its last reset were all successful,
\* each with the user turn generate_response adds, the history is the
\* optional system turn of the current system_prompt followed by the user and
\* assistant turns of those turns, in the order the messages were sent; its
\* length is twice their number, plus one with a system prompt.
C3_HistoryAlternates ==
    \A u \in Users :
        OnlySuccessfulTurns(u) =>
            /\ History(u) = SystemPrefix(u) \o TurnsOf(sent[u])
            /\ Len(History(u)) = 2 * Len(sent[u]) + Len(SystemPrefix(u))

\* C4: a step of a streaming turn makes an edit call only when the rendered
\* text of the accumulated answer differs from the text emitted last.
C4_EditOnlyWhenRenderChanges ==
    [][\A i \in 1..Len(inflight) :
          (i <= Len(inflight') /\ inflight'[i].edits > inflight[i].edits)
              => format_message(inflight'[i].raw) # inflight[i].shown]_vars

\* C5: a turn whose last streaming edit was answered NotModified, or was
\* rejected for flood control, has not failed.
C5_NotModifiedIsSuccess ==
    \A i \in 1..Len(inflight) :
        inflight[i].ack \in {"NotModified", "RetryAfter"} => inflight[i].pc # "Failed"

\* C6: while a user is in AwaitingPrompt, processing one of the user's
\* commands /new, /model, /audio, /info, /start and /help runs no handler
\* and changes neither the user's session nor the flow state.
C6_OnlyCancelAccepted ==
    [][\A u \in Users :
          (/\ AwaitingPrompt(u)
           /\ ProcessStep
           /\ Head(queue) \in {CommandUpdate(u, c) :
                                  c \in {"new", "model", "audio", "info", "start", "help"}})
              => /\ last'.handler = "none"
                 /\ user_data'[u] = user_data[u]
                 /\ conversations'[u] = conversations[u]]_vars

\* The texts of the model whose lower-cased, trimmed content is "clear".
ClearTexts == {<<" ", "C", "l", "e", "a", "r", " ">>}

\* The step that ends the handling of a plain message which the user
\* submitted in AwaitingPrompt.
SubmissionEnds(u) ==
    /\ waiting # Absent /\ waiting[1].user = u
    /\ waiting' = Absent
    /\ AwaitingPrompt(u)

\* C7: a plain message submitted in AwaitingPrompt, once handled, leaves
\* system_prompt absent and the history empty if the message normalises to
\* "clear", and otherwise leaves system_prompt equal to the literal text and
\* the history equal to the one system turn that carries it; the flow is
\* Idle afterwards.
C7_PromptSubmission ==
    [][\A u \in Allowed :
          SubmissionEnds(u)
              => /\ conversations'[u] = Absent
                 /\ IF waiting[1].text \in ClearTexts
                    THEN /\ user_data'[u].system_prompt = Absent
                         /\ user_data'[u].messages = Some(<<>>)
                    ELSE /\ user_data'[u].system_prompt = Some(waiting[1].text)
                         /\ user_data'[u].messages =
                                Some(<<Turn("system", waiting[1].text)>>)]_vars

\* C8: /cancel received in AwaitingPrompt leaves the flow Idle and the user's
\* system_prompt, history, model and voice_enabled as they were.
C8_CancelKeepsSession ==
    [][\A u \in Allowed :
          (/\ AwaitingPrompt(u)
           /\ ProcessStep
           /\ Head(queue) = CommandUpdate(u, "cancel"))
              => /\ conversations'[u] = Absent
                 /\ user_data'[u] = user_data[u]]_vars

\* C9: no two message_handler invocations that have not returned belong to
\* the same session, so a session has at most one turn in flight.
C9_OneTurnPerSession ==
    \A i, j \in 1..Len(inflight) :
        i # j => inflight[i].user # inflight[j].user

\* A second message of the same user waits while the first is streaming.
C9_Witness ==
    \E i \in 1..Len(inflight) :
        /\ inflight[i].pc = "Streaming"
        /\ inflight[i].raw # <<>>
        /\ queue # <<>>
        /\ Head(queue) = MessageUpdate(inflight[i].user, TxtBrief)

\* C10: while a turn of one session is in flight, a pending update of
\* another user can be processed.
C10_OtherSessionsNotBlocked ==
    \A i \in 1..Len(inflight) :
        (/\ InFlight(i)
         /\ queue # <<>>
         /\ Head(queue).user # inflight[i].user)
            => ENABLED Process

\* The turns of a history that carry the given role.
CountRole(hist, role) ==
    Cardinality({k \in 1..Len(hist) : hist[k].role = role})

\* An assistant turn was appended to the history since the turn began.
Appended(i) ==
    CountRole(History(inflight[i].user), "assistant")
        > CountRole(inflight[i].pre, "assistant")

\* The last turn of the history is the assistant turn of the turn in flight.
AnswerIsLast(i) ==
    LET h == History(inflight[i].user)
    IN  h # <<>> /\ h[Len(h)] = Turn("assistant", inflight[i].raw)

\* C11: a turn whose synthesis failed, or whose voice message was not
\* delivered, has ended Completed: its assistant turn is the last turn of the
\* history, the failure notice was neither sent nor shown, and nothing was
\* raised into the except branch.
C11_VoiceFailureKeepsTurn ==
    \A i \in 1..Len(inflight) :
        (inflight[i].synth > 0 /\ (inflight[i].tts = "failed" \/ inflight[i].voice = Absent))
            => /\ inflight[i].pc = "Completed"
               /\ Appended(i)
               /\ AnswerIsLast(i)
               /\ inflight[i].notice = "none"
               /\ inflight[i].shown # FailureNotice
               /\ inflight[i].cause = "none"

\* A turn whose answer was shown, whose synthesis failed and which sent no
\* voice message.
C11_Witness ==
    \E i \in 1..Len(inflight) :
        /\ inflight[i].pc = "Completed"
        /\ inflight[i].raw # <<>>
        /\ inflight[i].shown = format_message(inflight[i].raw)
        /\ inflight[i].tts = "failed"
        /\ inflight[i].voice = Absent

\* C12: a Completed turn has called text_to_wav once when voice_enabled
\* (True when never set) is true and never when it is false; a turn that is
\* streaming or Failed has not called it.
C12_SynthesisOncePerCompletedTurn ==
    \A i \in 1..Len(inflight) :
        LET t == inflight[i]
        IN  /\ t.pc = "Completed" =>
                  t.synth = IF Get(user_data[t.user].voice_enabled, TRUE) THEN 1 ELSE 0
            /\ t.pc \in {"Streaming", "Voice", "Failed"} => t.synth = 0

\* A turn completed without synthesis after one /audio.
C12_Witness ==
    \E i \in 1..Len(inflight) :
        /\ inflight[i].pc = "Completed"
        /\ user_data[inflight[i].user].voice_enabled = Some(FALSE)
        /\ inflight[i].synth = 0
        /\ inflight[i].raw # <<>>

\* C13: a turn whose completion stream raised has ended Failed and stays so:
\* the failure notice was sent as an edit of its message, which shows it when
\* the edit was delivered, the history has no new assistant turn and
\* text_to_wav was not called.
C13_StreamFailureEndsFailed ==
    \A i \in 1..Len(inflight) :
        inflight[i].cause = "UpstreamError"
            => /\ inflight[i].pc = "Failed"
               /\ inflight[i].notice # "none"
               /\ inflight[i].notice = "ok" => inflight[i].shown = FailureNotice
               /\ CountRole(History(inflight[i].user), "assistant")
                      = CountRole(inflight[i].pre, "assistant")
               /\ inflight[i].synth = 0
               /\ inflight[i].voice = Absent

\* A stream that failed after a partial answer was shown.
C13_Witness ==
    \E i \in 1..Len(inflight) :
        /\ inflight[i].cause = "UpstreamError"
        /\ inflight[i].raw # <<>>
        /\ inflight[i].edits = 1
        /\ inflight[i].shown = FailureNotice

\* C14: processing /new of an authorized user sets the user's history to the
\* empty list when system_prompt is absent and to the single system turn of
\* system_prompt when it is set, and changes no other field of the session
\* and no flow state.
C14_NewResetsOnlyHistory ==
    [][\A u \in Allowed :
          (ProcessStep /\ Head(queue) = CommandUpdate(u, "new"))
              => LET ud == user_data[u]
                     fresh == IF ud.system_prompt = Absent THEN <<>>
                              ELSE <<Turn("system", ud.system_prompt[1])>>
                 IN  /\ user_data' = [user_data EXCEPT ![u] =
                                          [ud EXCEPT !.messages = Some(fresh)]]
                     /\ conversations' = conversations]_vars

\* /new ran for a user in AwaitingPrompt whose system prompt is set and left
\* the single system turn.
C14_Witness ==
    /\ last.handler = "new_command_handler"
    /\ AwaitingPrompt(last.user)
    /\ user_data[last.user].system_prompt = Some(TxtBrief)
    /\ History(last.user) = <<Turn("system", TxtBrief)>>

\* C15: a plain message of an authorized user in AwaitingPrompt runs
\* get_system_prompt only: no turn starts, no placeholder is sent and the
\* history gains no user turn; a plain message of a user in Idle runs
\* message_handler.
C15_PromptFlowTakesMessages ==
    [][\A u \in Allowed, t \in Texts :
          (ProcessStep /\ Head(queue) = MessageUpdate(u, t))
              => /\ AwaitingPrompt(u) =>
                        /\ last'.handler = "get_system_prompt"
                        /\ inflight' = inflight
                        /\ last'.reply # Placeholder[1]
                        /\ CountRole(Get(user_data'[u].messages, <<>>), "user")
                               <= CountRole(History(u), "user")
                 /\ Idle(u) => last'.handler = "message_handler"]_vars

\* The first message after a prompt change started a turn.
C15_Witness ==
    \E i \in 1..Len(inflight) :
        /\ last.handler = "message_handler"
        /\ Idle(inflight[i].user)
        /\ inflight[i].pc = "Streaming"
        /\ inflight[i].pre = <<Turn("system", TxtBrief)>>

\* C16: a turn that has just begun shows the placeholder and has no edit;
\* an edit is made only while no assistant turn has been appended;
\* text_to_wav is called only when the assistant turn is in the history; and
\* no turn has both the failure notice sent and an assistant turn appended.
C16_TurnEventOrder ==
    [][\A i \in 1..Len(inflight') :
          /\ i > Len(inflight) =>
                 /\ last'.reply = Placeholder[1]
                 /\ inflight'[i].shown = Placeholder
                 /\ inflight'[i].edits = 0 /\ inflight'[i].synth = 0
          /\ i <= Len(inflight) =>
                 /\ inflight'[i].edits > inflight[i].edits =>
                        ~Appended(i) /\ ~Appended(i)'
                 /\ inflight'[i].synth > inflight[i].synth =>
                        Appended(i) /\ AnswerIsLast(i)
          /\ ~(inflight'[i].notice # "none" /\ Appended(i)')]_vars

\* A turn that was edited, appended its answer and then called text_to_wav.
C16_Witness ==
    \E i \in 1..Len(inflight) :
        /\ inflight[i].edits = 1
        /\ Appended(i)
        /\ inflight[i].synth = 1
        /\ inflight[i].pc = "Completed"

\* C17: when get_system_prompt ends without its confirmation reply, the
\* session either is what it was before the submission or is what a
\* completed submission leaves: system_prompt and history agree.
C17_FailedReplyKeepsConsistency ==
    [][\A u \in Allowed :
          (SubmissionEnds(u) /\ last'.reply = "")
              => \/ user_data'[u] = waiting[1].before
                 \/ user_data'[u] =
                        new_chat(SetSystemPrompt(waiting[1].before, waiting[1].text))]_vars

\* C18: a voice message that was sent carries the audio of the raw text of
\* its own turn.
C18_VoiceIsOfThisTurn ==
    \A i \in 1..Len(inflight) :
        inflight[i].voice # Absent => inflight[i].voice = Some(inflight[i].raw)

\* C19: processing an update of a user who is not authorized changes no
\* session, no flow state, starts no turn and sends no reply.
C19_UnauthorizedHasNoEffect ==
    [][(ProcessStep /\ ~AuthFilter(Head(queue)))
          => /\ user_data' = user_data
             /\ conversations' = conversations
             /\ inflight' = inflight
             /\ last'.reply = ""]_vars

\* The model a message turn of the session uses.
TurnModel(ud) == Defaults(ud).model[1]

\* C20: the model a delivered /info reply reports is the model a message
\* turn of the session uses.
C20_InfoReportsTurnModel ==
    (last.handler = "info_command_handler" /\ last.reply # "")
        => last.reply = TurnModel(user_data[last.user])

====
